---------------------------- MODULE Spec2Model ----------------------------
(***************************************************************************)
(* A model of src/app.py, the PJM zone-wise load dashboard.                *)
(*                                                                         *)
(* The script is one top-to-bottom run: load_data builds the Dataset, the  *)
(* sidebar widgets hold the time window, the zone selection and the        *)
(* resample rule, and then the time filter, the resample, the KPI cards,   *)
(* the daily chart and the hourly chart are computed in that order.  Each  *)
(* of these blocks is one action; pc is the position of the run.           *)
(*                                                                         *)
(* Instants are whole minutes counted from a midnight.  Numbers are exact  *)
(* rationals <<n, d>> with d > 0 in lowest terms; the missing value (NaN)  *)
(* is <<0, 0>>.  Floating-point rounding is not modelled.  The widgets and  *)
(* the charts are the library's: a widget is the value it returns, a chart *)
(* is the frame it is given.                                               *)
(***************************************************************************)
EXTENDS Integers, Sequences, FiniteSets

VARIABLES
    raw,             \* the sheet read_excel returned: a sequence of columns
    time_col,        \* load_data: index of the column chosen as the timestamp
    df,              \* the Dataset: rows [timestamp, zones] sorted by timestamp
    numeric_cols,    \* zone names in column order
    start,           \* slider: window start
    end,             \* slider: window end
    selected_zones,  \* multiselect: zone names in selection order
    resample_rule,   \* selectbox: one of Rules
    view,            \* the filtered rows, then (same name) the resampled rows
    target,          \* series_for_kpis(view)
    kpi,             \* <<>> while no card is drawn, else <<[peak, trough, mean, pct]>>
    day,             \* the daily resample of view
    ycol,            \* the zone the daily chart plots
    hourly,          \* the mean by clock hour: rows [hour, value]
    ycol2,           \* the zone the hourly chart plots
    err,             \* "none", or the exception that ended the run
    pc               \* position of the run

vars == <<raw, time_col, df, numeric_cols, start, end, selected_zones,
          resample_rule, view, target, kpi, day, ycol, hourly, ycol2, err, pc>>

-----------------------------------------------------------------------------
(* Bounds of the model *)

\* longest Dataset (rows)
MaxLen == 3

\* most columns of a raw sheet
MaxCols == 3

\* the days the slider's default window reaches back from max_t
DefaultDays == 3

\* instants the rows and the slider are drawn from, around one midnight
\* (minute 1440): 23:00, 23:52 and 23:59 of one day (the last two in one
\* 15-minute bucket), 00:05 and 02:10 of the next
TimePoints == {1380, 1432, 1439, 1445, 1570}

\* the instants of the series used where only the values vary
Grid == <<1380, 1432, 1445, 1570>>

-----------------------------------------------------------------------------
(* Exact arithmetic with a missing value *)

NaN == <<0, 0>>

IsNaN(x) == x[2] = 0

Abs(n) == IF n < 0 THEN -n ELSE n

RECURSIVE Gcd(_, _)
Gcd(a, b) == IF b = 0 THEN a ELSE Gcd(b, a % b)

Norm(n, d) ==
    LET g == Gcd(Abs(n), d)
    IN  <<n \div g, d \div g>>

Int2Rat(n) == <<n, 1>>

Zero == <<0, 1>>

RAdd(x, y) == Norm(x[1] * y[2] + y[1] * x[2], x[2] * y[2])

RSub(x, y) == Norm(x[1] * y[2] - y[1] * x[2], x[2] * y[2])

RAbs(x) == <<Abs(x[1]), x[2]>>

RMulInt(x, k) == Norm(x[1] * k, x[2])

RDivInt(x, k) == Norm(x[1], x[2] * k)

\* x / y for y # 0
RDiv(x, y) ==
    IF y[1] < 0 THEN Norm(-(x[1] * y[2]), x[2] * (-y[1]))
    ELSE Norm(x[1] * y[2], x[2] * y[1])

RLess(x, y) == x[1] * y[2] < y[1] * x[2]

\* IEEE arithmetic: an operand that is NaN makes the result NaN
FSub(x, y) == IF IsNaN(x) \/ IsNaN(y) THEN NaN ELSE RSub(x, y)

FDiv(x, y) ==
    IF IsNaN(x) \/ IsNaN(y) THEN NaN
    ELSE IF y = Zero THEN NaN
    ELSE RDiv(x, y)

FMulInt(x, k) == IF IsNaN(x) THEN NaN ELSE RMulInt(x, k)

FAbs(x) == IF IsNaN(x) THEN NaN ELSE RAbs(x)

Present(s) == SelectSeq(s, LAMBDA x : ~IsNaN(x))

\* the sum of s[lo..hi], by halves
RECURSIVE SumRange(_, _, _)
SumRange(s, lo, hi) ==
    IF lo > hi THEN Zero
    ELSE IF lo = hi THEN s[lo]
    ELSE LET mid == (lo + hi) \div 2
         IN  RAdd(SumRange(s, lo, mid), SumRange(s, mid + 1, hi))

SumSeq(s) == SumRange(s, 1, Len(s))

\* pandas sum, skipna: the sum of the present values, 0 when there is none
NanSum(s) == SumSeq(Present(s))

\* the mean that counts a missing value as a zero
MeanNaNAsZero(s) ==
    IF s = <<>> THEN NaN ELSE RDivInt(SumSeq(Present(s)), Len(s))

\* pandas mean, skipna: the mean of the present values, NaN when there is none
NanMean(s) ==
    LET p == Present(s)
    IN  IF p = <<>> THEN NaN ELSE RDivInt(SumSeq(p), Len(p))

RMax(x, y) == IF RLess(x, y) THEN y ELSE x

RMin(x, y) == IF RLess(y, x) THEN y ELSE x

\* the largest of s[lo..hi], lo <= hi, by halves
RECURSIVE MaxRange(_, _, _)
MaxRange(s, lo, hi) ==
    IF lo = hi THEN s[lo]
    ELSE LET mid == (lo + hi) \div 2
         IN  RMax(MaxRange(s, lo, mid), MaxRange(s, mid + 1, hi))

RECURSIVE MinRange(_, _, _)
MinRange(s, lo, hi) ==
    IF lo = hi THEN s[lo]
    ELSE LET mid == (lo + hi) \div 2
         IN  RMin(MinRange(s, lo, mid), MinRange(s, mid + 1, hi))

MaxSeq(s) == MaxRange(s, 1, Len(s))

MinSeq(s) == MinRange(s, 1, Len(s))

NanMax(s) == IF Present(s) = <<>> THEN NaN ELSE MaxSeq(Present(s))

NanMin(s) == IF Present(s) = <<>> THEN NaN ELSE MinSeq(Present(s))

\* the members of a set of integers, ascending
RECURSIVE Ascending(_)
Ascending(S) ==
    IF S = {} THEN <<>>
    ELSE LET h == CHOOSE x \in S : \A y \in S : x <= y
         IN  <<h>> \o Ascending(S \ {h})

Range(s) == {s[i] : i \in DOMAIN s}

Column(rows, z) == [i \in DOMAIN rows |-> rows[i].zones[z]]

-----------------------------------------------------------------------------
(* The sidebar *)

Rules == <<"5T", "15T", "30T", "1H", "6H", "1D">>

\* the width of a rule's bucket, in minutes
RuleWidth(rule) ==
    CASE rule = "5T" -> 5
      [] rule = "15T" -> 15
      [] rule = "30T" -> 30
      [] rule = "1H" -> 60
      [] rule = "6H" -> 360
      [] rule = "1D" -> 1440

PJM_RTO == "pjm_rto"

-----------------------------------------------------------------------------
(* Filter time *)

TimeMaskOpenEnd(t, s, e) == t >= s /\ t < e

TimeMask(t, s, e) == t >= s /\ t <= e

FilterTime(rows, s, e) ==
    SelectSeq(rows, LAMBDA r : TimeMask(r.timestamp, s, e))

-----------------------------------------------------------------------------
(* Resample *)

BucketStart(t, w) == (t \div w) * w

MinTime(rows) ==
    CHOOSE t \in {rows[i].timestamp : i \in DOMAIN rows} :
        \A i \in DOMAIN rows : t <= rows[i].timestamp

MaxTime(rows) ==
    CHOOSE t \in {rows[i].timestamp : i \in DOMAIN rows} :
        \A i \in DOMAIN rows : t >= rows[i].timestamp

InBucket(rows, b, w) ==
    SelectSeq(rows, LAMBDA r : b <= r.timestamp /\ r.timestamp < b + w)

BucketMeanNaNAsZero(rows, z, b, w) == MeanNaNAsZero(Column(InBucket(rows, b, w), z))

BucketMean(rows, z, b, w) == NanMean(Column(InBucket(rows, b, w), z))

\* every bucket from the first row's to the last row's, with the buckets no
\* row falls in left out
ResampleDropEmpty(rows, cols, w) ==
    IF rows = <<>> THEN <<>>
    ELSE LET first == BucketStart(MinTime(rows), w)
             last == BucketStart(MaxTime(rows), w)
             n == ((last - first) \div w) + 1
             all == [i \in 1..n |->
                        LET b == first + (i - 1) * w
                        IN  [timestamp |-> b,
                             zones |-> [z \in Range(cols) |-> BucketMean(rows, z, b, w)]]]
         IN  SelectSeq(all, LAMBDA r : InBucket(rows, r.timestamp, w) # <<>>)

\* every bucket labelled by its right edge
ResampleRightLabel(rows, cols, w) ==
    IF rows = <<>> THEN <<>>
    ELSE LET first == BucketStart(MinTime(rows), w)
             last == BucketStart(MaxTime(rows), w)
             n == ((last - first) \div w) + 1
         IN  [i \in 1..n |->
                 LET b == first + (i - 1) * w
                 IN  [timestamp |-> b + w,
                      zones |-> [z \in Range(cols) |-> BucketMean(rows, z, b, w)]]]

\* DataFrame.resample(rule).mean(numeric_only=True): bins closed and labelled
\* on the left, anchored at midnight; one row for every bin from the first
\* row's to the last row's, a bin without rows included (all NaN)
Resample(rows, cols, w) ==
    IF rows = <<>> THEN <<>>
    ELSE LET first == BucketStart(MinTime(rows), w)
             last == BucketStart(MaxTime(rows), w)
             n == ((last - first) \div w) + 1
         IN  [i \in 1..n |->
                 LET b == first + (i - 1) * w
                 IN  [timestamp |-> b,
                      zones |-> [z \in Range(cols) |-> BucketMean(rows, z, b, w)]]]

-----------------------------------------------------------------------------
(* KPI cards *)

SumOver(rows, zs) ==
    [i \in DOMAIN rows |-> NanSum([k \in DOMAIN zs |-> rows[i].zones[zs[k]]])]

series_for_kpis_SelectionFirst(rows, cols, sel) ==
    IF sel # <<>> THEN SumOver(rows, sel)
    ELSE IF PJM_RTO \in Range(cols) THEN Column(rows, PJM_RTO)
    ELSE SumOver(rows, cols)

series_for_kpis(rows, cols, sel) ==
    IF PJM_RTO \in Range(cols) THEN Column(rows, PJM_RTO)
    ELSE IF sel # <<>> THEN SumOver(rows, sel)
    ELSE SumOver(rows, cols)

PctNoAbs(t) ==
    IF Len(t) >= 2 /\ t[1] # Zero
    THEN FMulInt(FDiv(FSub(t[Len(t)], t[1]), t[1]), 100)
    ELSE NaN

Pct(t) ==
    IF Len(t) >= 2 /\ t[1] # Zero
    THEN FMulInt(FDiv(FSub(t[Len(t)], t[1]), FAbs(t[1])), 100)
    ELSE NaN

-----------------------------------------------------------------------------
(* Daily and hourly charts *)

Hour(t) == (t \div 60) % 24

GroupTargetDatasetFirst(cols, sel) ==
    IF PJM_RTO \in Range(cols) THEN PJM_RTO
    ELSE IF cols # <<>> THEN cols[1]
    ELSE IF sel # <<>> THEN sel[1]
    ELSE "IndexError"

\* the zone a chart plots, or "IndexError" when numeric_cols[0] does not exist
GroupTarget(cols, sel) ==
    IF PJM_RTO \in Range(cols) THEN PJM_RTO
    ELSE IF sel # <<>> THEN sel[1]
    ELSE IF cols # <<>> THEN cols[1]
    ELSE "IndexError"

HourlyMean(rows, z) ==
    LET hs == Ascending({Hour(rows[i].timestamp) : i \in DOMAIN rows})
    IN  [k \in DOMAIN hs |->
            [hour |-> hs[k],
             value |-> NanMean(Column(
                 SelectSeq(rows, LAMBDA r : Hour(r.timestamp) = hs[k]), z))]]

-----------------------------------------------------------------------------
(* The run of the script *)

NoKpi == <<>>

FilterStep ==
    /\ pc = "filter"
    /\ view' = FilterTime(df, start, end)
    /\ pc' = "resample"
    /\ UNCHANGED <<raw, time_col, df, numeric_cols, start, end, selected_zones,
                   resample_rule, target, kpi, day, ycol, hourly, ycol2, err>>

ResampleStep ==
    /\ pc = "resample"
    /\ view' = Resample(view, numeric_cols, RuleWidth(resample_rule))
    /\ pc' = "kpi"
    /\ UNCHANGED <<raw, time_col, df, numeric_cols, start, end, selected_zones,
                   resample_rule, target, kpi, day, ycol, hourly, ycol2, err>>

KpiStep ==
    /\ pc = "kpi"
    /\ target' = series_for_kpis(view, numeric_cols, selected_zones)
    /\ kpi' = IF target' = <<>> THEN NoKpi
              ELSE <<[peak |-> NanMax(target'),
                      trough |-> NanMin(target'),
                      mean |-> NanMean(target'),
                      pct |-> Pct(target')]>>
    /\ pc' = "daily"
    /\ UNCHANGED <<raw, time_col, df, numeric_cols, start, end, selected_zones,
                   resample_rule, view, day, ycol, hourly, ycol2, err>>

DailyStep ==
    /\ pc = "daily"
    /\ day' = Resample(view, numeric_cols, RuleWidth("1D"))
    /\ LET y == GroupTarget(numeric_cols, selected_zones)
       IN  IF y = "IndexError"
           THEN /\ err' = "IndexError"
                /\ pc' = "error"
                /\ ycol' = ycol
           ELSE /\ err' = err
                /\ pc' = "hourly"
                /\ ycol' = y
    /\ UNCHANGED <<raw, time_col, df, numeric_cols, start, end, selected_zones,
                   resample_rule, view, target, kpi, hourly, ycol2>>

HourlyStep ==
    /\ pc = "hourly"
    /\ ycol2' = GroupTarget(numeric_cols, selected_zones)
    /\ hourly' = HourlyMean(view, ycol2')
    /\ pc' = "done"
    /\ UNCHANGED <<raw, time_col, df, numeric_cols, start, end, selected_zones,
                   resample_rule, view, target, kpi, day, ycol, err>>

Next == FilterStep \/ ResampleStep \/ KpiStep \/ DailyStep \/ HourlyStep

-----------------------------------------------------------------------------
(* load_data *)

\* the column names a sheet may use
NamePool ==
    {"interval_start_local", "Interval_Start_Local", "local_start_interval",
     "interval_start_utc", "pjm_rto", "dom"}

\* a name as its characters
Chars(name) ==
    CASE name = "interval_start_local" ->
           <<"i", "n", "t", "e", "r", "v", "a", "l", "_", "s", "t", "a", "r", "t", "_", "l", "o", "c", "a", "l">>
      [] name = "Interval_Start_Local" ->
           <<"I", "n", "t", "e", "r", "v", "a", "l", "_", "S", "t", "a", "r", "t", "_", "L", "o", "c", "a", "l">>
      [] name = "local_start_interval" ->
           <<"l", "o", "c", "a", "l", "_", "s", "t", "a", "r", "t", "_", "i", "n", "t", "e", "r", "v", "a", "l">>
      [] name = "interval_start_utc" ->
           <<"i", "n", "t", "e", "r", "v", "a", "l", "_", "s", "t", "a", "r", "t", "_", "u", "t", "c">>
      [] name = "pjm_rto" ->
           <<"p", "j", "m", "_", "r", "t", "o">>
      [] name = "dom" ->
           <<"d", "o", "m">>

\* Python's  sub in s  on strings
Contains(s, sub) ==
    \E i \in 1..(Len(s) - Len(sub) + 1) : SubSeq(s, i, i + Len(sub) - 1) = sub

\* str.lower, on the letters NamePool uses
Lower(s) ==
    [i \in DOMAIN s |->
        CASE s[i] = "I" -> "i"
          [] s[i] = "S" -> "s"
          [] s[i] = "L" -> "l"
          [] OTHER -> s[i]]

HasTimeWords(s) ==
    /\ Contains(s, <<"i", "n", "t", "e", "r", "v", "a", "l">>)
    /\ Contains(s, <<"s", "t", "a", "r", "t">>)
    /\ Contains(s, <<"l", "o", "c", "a", "l">>)

NameMatchesAnyCase(name) == HasTimeWords(Lower(Chars(name)))

\* "interval" in c and "start" in c and "local" in c
NameMatches(name) == HasTimeWords(Chars(name))

\* pd.to_datetime(df[c]) does not raise: datetimes and numbers convert, text
\* does not
Parses(col) == col.kind # "text"

\* pd.to_datetime of one cell, as the minute the instant lies in: a datetime is
\* itself, a number n is n nanoseconds after the epoch (the numbers of the
\* model are far below one minute of nanoseconds)
ToDatetime(kind, c) ==
    IF kind = "number" THEN (IF c >= 0 THEN 0 ELSE -1) ELSE c

\* the column load_data takes as the timestamp
TimeColumn(sheet) ==
    LET byName == Ascending({i \in DOMAIN sheet : NameMatches(sheet[i].name)})
        cands == IF Len(byName) = 0
                 THEN Ascending({i \in DOMAIN sheet : Parses(sheet[i])})
                 ELSE byName
    IN  IF cands # <<>> THEN cands[1] ELSE 1

\* df.select_dtypes(include=[np.number]).columns.tolist()
NumericCols(sheet) ==
    LET idx == Ascending({i \in DOMAIN sheet : sheet[i].kind = "number"})
    IN  [k \in DOMAIN idx |-> sheet[idx[k]].name]

NumRows(sheet) == Len(sheet[1].cells)

\* the orders sort_values may leave the rows in: ascending by timestamp, rows
\* of equal timestamp in any order
SortOrders(ts) ==
    {p \in [DOMAIN ts -> DOMAIN ts] :
        /\ \A i, j \in DOMAIN ts : p[i] = p[j] => i = j
        /\ \A i \in 1..(Len(ts) - 1) : ts[p[i]] <= ts[p[i + 1]]}

CellOf(sheet, name, r) ==
    LET i == CHOOSE k \in DOMAIN sheet : sheet[k].name = name
    IN  sheet[i].cells[r]

LoadData ==
    /\ pc = "load"
    /\ time_col' = TimeColumn(raw)
    /\ IF ~Parses(raw[time_col'])
       THEN /\ err' = "ParserError"
            /\ pc' = "error"
            /\ UNCHANGED <<df, numeric_cols>>
       ELSE /\ numeric_cols' = NumericCols(raw)
            /\ LET col == raw[time_col']
                   ts == [r \in 1..NumRows(raw) |-> ToDatetime(col.kind, col.cells[r])]
               IN  \E p \in SortOrders(ts) :
                       df' = [r \in 1..NumRows(raw) |->
                                 [timestamp |-> ts[p[r]],
                                  zones |-> [z \in Range(numeric_cols') |->
                                                Int2Rat(CellOf(raw, z, p[r]))]]]
            /\ err' = err
            /\ pc' = "loaded"
    /\ UNCHANGED <<raw, start, end, selected_zones, resample_rule, view, target,
                   kpi, day, ycol, hourly, ycol2>>

NextLoad == LoadData

\* what a column may hold: datetimes out of order, numbers, or text
ColumnData ==
    {[kind |-> "datetime", cells |-> <<1445, 1380>>],
     [kind |-> "number", cells |-> <<2, 1>>],
     [kind |-> "text", cells |-> <<0, 0>>]}

\* the sheets of n columns with different names
Sheets(n) ==
    {[i \in 1..n |-> [name |-> q[i][1], kind |-> q[i][2].kind, cells |-> q[i][2].cells]] :
        q \in {q \in [1..n -> NamePool \X ColumnData] :
                  \A i, j \in 1..n : q[i][1] = q[j][1] => i = j}}

InitLoad ==
    /\ \E n \in 1..MaxCols : raw \in Sheets(n)
    /\ time_col = 0
    /\ df = <<>>
    /\ numeric_cols = <<>>
    /\ start = 0
    /\ end = 0
    /\ selected_zones = <<>>
    /\ resample_rule = "1H"
    /\ view = <<>>
    /\ target = <<>>
    /\ kpi = NoKpi
    /\ day = <<>>
    /\ ycol = ""
    /\ hourly = <<>>
    /\ ycol2 = ""
    /\ err = "none"
    /\ pc = "load"

SpecLoad == InitLoad /\ [][NextLoad]_vars

-----------------------------------------------------------------------------
(* Datasets and widget values a run starts from *)

Rows(cols, times, vals) == [timestamp : times, zones : [Range(cols) -> vals]]

\* the Datasets of n rows: sorted by timestamp, as load_data leaves them
Datasets(cols, times, vals, n) ==
    {s \in [1..n -> Rows(cols, times, vals)] :
        \A i \in 1..(n - 1) : s[i].timestamp <= s[i + 1].timestamp}

\* default_start = max_t - pd.Timedelta(days=3)
DefaultStart(rows) == MaxTime(rows) - DefaultDays * 1440

\* the slider's default value: the last three days
DefaultWindow(rows) == {<<DefaultStart(rows), MaxTime(rows)>>}

\* the slider's values: start <= end, between the earlier of min_t and the
\* default start, and max_t
Windows(rows) ==
    LET lo == IF DefaultStart(rows) < MinTime(rows)
              THEN DefaultStart(rows) ELSE MinTime(rows)
        points == TimePoints \cup {DefaultStart(rows)}
    IN  {w \in points \X points :
            lo <= w[1] /\ w[1] <= w[2] /\ w[2] <= MaxTime(rows)}

\* the state of a run when the sidebar has been drawn
Loaded(cols) ==
    /\ raw = <<>>
    /\ time_col = 0
    /\ numeric_cols = cols
    /\ view = <<>>
    /\ target = <<>>
    /\ kpi = NoKpi
    /\ day = <<>>
    /\ ycol = ""
    /\ hourly = <<>>
    /\ ycol2 = ""
    /\ err = "none"
    /\ pc = "filter"

ResampleVals == {NaN, Int2Rat(1), Int2Rat(2)}

\* one zone, rows at any instants, the slider at its default
Init ==
    /\ \E n \in 1..MaxLen : df \in Datasets(<<"dom">>, TimePoints, ResampleVals, n)
    /\ \E w \in DefaultWindow(df) : start = w[1] /\ end = w[2]
    /\ selected_zones = <<"dom">>
    /\ resample_rule \in Range(Rules)
    /\ Loaded(<<"dom">>)

Spec == Init /\ [][Next]_vars

\* the multiselect's values: zones of the Dataset, each at most once, in the
\* order they were picked
Selections(cols) ==
    UNION {{q \in [1..k -> Range(cols)] : \A i, j \in 1..k : q[i] = q[j] => i = j} :
              k \in 0..Len(cols)}

FilterVals == {Int2Rat(1), Int2Rat(2)}

\* one zone, rows at any instants, every window of the slider
InitFilter ==
    /\ \E n \in 1..MaxLen : df \in Datasets(<<"dom">>, TimePoints, FilterVals, n)
    /\ \E w \in Windows(df) : start = w[1] /\ end = w[2]
    /\ selected_zones = <<"dom">>
    /\ resample_rule = "1H"
    /\ Loaded(<<"dom">>)

SpecFilter == InitFilter /\ [][Next]_vars

\* the value rows in which zone z holds a value of vals[z]
ZoneRows(cols, vals) ==
    {f \in [Range(cols) -> UNION {vals[z] : z \in Range(cols)}] :
        \A z \in Range(cols) : f[z] \in vals[z]}

\* the Datasets of n rows at the instants of Grid, zone z drawing its values
\* from vals[z]
GridDatasets(cols, vals, n) ==
    {[i \in 1..n |-> [timestamp |-> Grid[i], zones |-> zs[i]]] :
        zs \in [1..n -> ZoneRows(cols, vals)]}

KpiVals == {NaN, Int2Rat(-2), Zero, Int2Rat(1)}

KpiZones == {<<PJM_RTO>>, <<"dom">>}

\* one zone (the system total, or another one), values of either sign, zero
\* and missing
InitKpi ==
    /\ \E cols \in KpiZones :
          /\ \E n \in 1..MaxLen :
                df \in GridDatasets(cols, [z \in Range(cols) |-> KpiVals], n)
          /\ selected_zones \in Selections(cols)
          /\ Loaded(cols)
    /\ \E w \in DefaultWindow(df) : start = w[1] /\ end = w[2]
    /\ resample_rule \in {"15T", "1H", "1D"}

SpecKpi == InitKpi /\ [][Next]_vars

\* each zone has a magnitude of its own, so that a sum of zones tells which
\* zones were summed
TargetVals ==
    [z \in {"dom", "aep", PJM_RTO} |->
        CASE z = "dom" -> {NaN, Int2Rat(1)}
          [] z = "aep" -> {NaN, Int2Rat(2)}
          [] z = PJM_RTO -> {Int2Rat(4)}]

TargetZones == {<<>>, <<"dom", "aep">>, <<"dom", PJM_RTO, "aep">>}

\* no zone, two zones, or three with the system total; every selection
InitTarget ==
    /\ \E cols \in TargetZones :
          /\ \E n \in 1..MaxLen :
                df \in GridDatasets(cols, [z \in Range(cols) |-> TargetVals[z]], n)
          /\ selected_zones \in Selections(cols)
          /\ Loaded(cols)
    /\ \E w \in DefaultWindow(df) : start = w[1] /\ end = w[2]
    /\ resample_rule \in {"1H", "1D"}

SpecTarget == InitTarget /\ [][Next]_vars

-----------------------------------------------------------------------------
(* Properties of the resample (specification Spec) *)

\* the run is past the resample: view holds the resampled rows
Resampled == pc \in {"kpi", "daily", "hourly", "done", "error"}

\* the rows the resample was given
Filtered == FilterTime(df, start, end)

W == RuleWidth(resample_rule)

\* row k of the filtered rows falls in the bucket that starts at b
FallsIn(k, b) == b <= Filtered[k].timestamp /\ Filtered[k].timestamp < b + W

\* C1 as stated: only the buckets some filtered row falls in are emitted, in
\* strictly ascending order of bucket start.
C1_OnlyNonEmptyBuckets ==
    Resampled =>
        /\ \A i \in DOMAIN view : \E k \in DOMAIN Filtered : FallsIn(k, view[i].timestamp)
        /\ \A i \in 1..(Len(view) - 1) : view[i].timestamp < view[i + 1].timestamp

\* C1 amended: the resampled series holds every bucket from the one of the
\* earliest filtered row to the one of the latest, each once, consecutive
\* bucket starts exactly one width apart (so strictly ascending); a bucket in
\* that range no filtered row falls in is emitted as a row whose zones are all
\* missing; no filtered row gives no output row.
C1_EveryBucketInRange ==
    Resampled =>
        /\ (Filtered = <<>>) <=> (view = <<>>)
        /\ \A i \in 1..(Len(view) - 1) : view[i + 1].timestamp = view[i].timestamp + W
        /\ \A k \in DOMAIN Filtered : \E i \in DOMAIN view : FallsIn(k, view[i].timestamp)
        /\ view # <<>> =>
              /\ \E k \in DOMAIN Filtered : FallsIn(k, view[1].timestamp)
              /\ \E k \in DOMAIN Filtered : FallsIn(k, view[Len(view)].timestamp)
        /\ \A i \in DOMAIN view :
              (\A k \in DOMAIN Filtered : ~FallsIn(k, view[i].timestamp))
                  => \A z \in Range(numeric_cols) : IsNaN(view[i].zones[z])

\* a resampled series with an emitted bucket no filtered row falls in, between
\* two buckets that hold present values
C1_Witness ==
    /\ Resampled
    /\ \E i \in 2..(Len(view) - 1) :
          /\ \A k \in DOMAIN Filtered : ~FallsIn(k, view[i].timestamp)
          /\ ~IsNaN(view[i - 1].zones["dom"])
          /\ ~IsNaN(view[i + 1].zones["dom"])

\* the present values of zone z among the filtered rows of the bucket at b
PresentIn(z, b) ==
    Present(Column(SelectSeq(Filtered,
        LAMBDA r : b <= r.timestamp /\ r.timestamp < b + W), z))

\* C7: every output bucket starts on a multiple of the rule's width, and its
\* value for a zone is the sum of the present values of that zone among the
\* filtered rows in [bucketStart, bucketStart + width) divided by their
\* number; with no present value it is missing, never zero.
C7_BucketMeanOfPresent ==
    Resampled =>
        \A i \in DOMAIN view : \A z \in Range(numeric_cols) :
            LET b == view[i].timestamp
                p == PresentIn(z, b)
                v == view[i].zones[z]
                t == SumSeq(p)
            IN  /\ b % W = 0
                /\ IF p = <<>> THEN IsNaN(v)
                   ELSE /\ ~IsNaN(v)
                        /\ v[1] * Len(p) * t[2] = t[1] * v[2]

\* a bucket holding a missing value and two different present values, whose
\* mean (3/2) counts the two present ones only
C7_Witness ==
    /\ Resampled
    /\ \E i \in DOMAIN view :
          LET b == view[i].timestamp
              all == Column(SelectSeq(Filtered,
                         LAMBDA r : b <= r.timestamp /\ r.timestamp < b + W), "dom")
          IN  /\ Len(all) = 3
              /\ Len(Present(all)) = 2
              /\ view[i].zones["dom"] = <<3, 2>>

\* C10: resampling the resampled series again at the same rule, with the
\* bucket starts as timestamps, gives the same bucket starts and the same zone
\* values, missing staying missing.
C10_ResampleIdempotent ==
    Resampled => Resample(view, numeric_cols, W) = view

\* a resampled series of several buckets with a missing and a fractional value
C10_Witness ==
    /\ Resampled
    /\ Len(view) >= 3
    /\ \E i \in DOMAIN view : IsNaN(view[i].zones["dom"])
    /\ \E i \in DOMAIN view : view[i].zones["dom"] = <<3, 2>>

-----------------------------------------------------------------------------
(* The time filter (specification SpecFilter) *)

\* C6: the filter keeps exactly the rows with start <= timestamp <= end, as
\* one contiguous run of the Dataset in its order; a window that holds no row
\* gives no row and no error.
C6_FilterIsInclusiveSlice ==
    pc = "resample" =>
        /\ err = "none"
        /\ \E i \in 1..(Len(df) + 1) : \E j \in 0..Len(df) :
              /\ view = SubSeq(df, i, j)
              /\ \A k \in DOMAIN df :
                    (i <= k /\ k <= j) <=>
                        (start <= df[k].timestamp /\ df[k].timestamp <= end)

\* a window whose two ends are rows of the Dataset, both kept, and a row
\* outside the window dropped
C6_Witness ==
    /\ pc = "resample"
    /\ start < end
    /\ Len(view) = 2
    /\ Len(df) = 3
    /\ view[1].timestamp = start
    /\ view[2].timestamp = end

-----------------------------------------------------------------------------
(* The KPI cards (specifications SpecKpi and SpecTarget) *)

KpiDone == pc \in {"daily", "hourly", "done", "error"}

\* C3 as stated: pct is NaN exactly when the target has fewer than two points
\* or starts with zero, and is (last - first) / |first| * 100 otherwise.
C3_PctUndefinedIffShortOrZero ==
    (KpiDone /\ target # <<>>) =>
        LET f == target[1]
            l == target[Len(target)]
            p == kpi[1].pct
        IN  /\ IsNaN(p) <=> (Len(target) < 2 \/ f = Zero)
            /\ ~IsNaN(p) => p[1] * Abs(f[1]) * l[2] = 100 * (l[1] * f[2] - f[1] * l[2]) * p[2]

\* C3 amended: pct is NaN exactly when the target has fewer than two points,
\* or its first value is zero, or its first or its last value is missing; in
\* every other case pct = (last - first) / |first| * 100.
C3_PctUndefinedIffShortZeroOrMissing ==
    (KpiDone /\ target # <<>>) =>
        LET f == target[1]
            l == target[Len(target)]
            p == kpi[1].pct
        IN  /\ Len(kpi) = 1
            /\ IsNaN(p) <=> (Len(target) < 2 \/ f = Zero \/ IsNaN(f) \/ IsNaN(l))
            /\ ~IsNaN(p) => p[1] * Abs(f[1]) * l[2] = 100 * (l[1] * f[2] - f[1] * l[2]) * p[2]

\* a target that starts at -2 and ends at 1: pct = (1 - (-2)) / 2 * 100 = 150
C3_Witness ==
    /\ KpiDone
    /\ Len(target) >= 2
    /\ target[1] = Int2Rat(-2)
    /\ target[Len(target)] = Int2Rat(1)
    /\ kpi[1].pct = Int2Rat(150)

\* the sum of the present values of the zones S in a row
RECURSIVE SumOfZones(_, _)
SumOfZones(row, S) ==
    IF S = {} THEN Zero
    ELSE LET z == CHOOSE x \in S : TRUE
             v == IF IsNaN(row.zones[z]) THEN Zero ELSE row.zones[z]
         IN  RAdd(v, SumOfZones(row, S \ {z}))

-----------------------------------------------------------------------------
(* The daily and hourly charts (specifications SpecTarget and Spec) *)

\* C9: both charts plot one named zone of the Dataset, the same one: the
\* system total when the Dataset has it, whatever is selected; otherwise the
\* first selected zone; otherwise the first zone of the Dataset.  A Dataset
\* with a zone always gets its charts.
C9_GroupTargetPriority ==
    /\ pc = "error" => numeric_cols = <<>>
    /\ pc \in {"hourly", "done"} =>
          /\ ycol \in Range(numeric_cols)
          /\ PJM_RTO \in Range(numeric_cols) => ycol = PJM_RTO
          /\ (PJM_RTO \notin Range(numeric_cols) /\ selected_zones # <<>>)
                => ycol = selected_zones[1]
          /\ (PJM_RTO \notin Range(numeric_cols) /\ selected_zones = <<>>)
                => ycol = numeric_cols[1]
    /\ pc = "done" => ycol2 = ycol

\* no system total, [aep, dom] selected: both charts plot aep, which is not
\* the first zone of the Dataset
C9_Witness ==
    /\ pc = "done"
    /\ numeric_cols = <<"dom", "aep">>
    /\ selected_zones = <<"aep", "dom">>
    /\ ycol = "aep"
    /\ ycol2 = "aep"

\* C4: no block of the run raises, whatever the Dataset, the window, the
\* selection and the rule.
C4_RunNeverRaises == err = "none" /\ pc # "error"

\* C2: the daily chart holds, per date, the mean of the target zone over the
\* filtered rows of that date, and the hourly chart, per clock hour, the mean
\* over the filtered rows of that hour, whatever the resample rule.
C2_GroupsOverFilteredRows ==
    pc = "done" =>
        /\ Column(day, ycol) = Column(Resample(Filtered, numeric_cols, RuleWidth("1D")), ycol)
        /\ hourly = HourlyMean(Filtered, ycol2)

-----------------------------------------------------------------------------
(* load_data (specification SpecLoad) *)

LoadEnded == pc \in {"loaded", "error"}

IsSorted(rows) ==
    \A i \in 1..(Len(rows) - 1) : rows[i].timestamp <= rows[i + 1].timestamp

\* the timestamp column is the first of Named when a column is in Named,
\* otherwise the first parseable column, otherwise the first column; one
\* column is chosen, and a Dataset that is built is sorted by timestamp
TimeColumnChosenBy(Named) ==
    LET P == {i \in DOMAIN raw : Parses(raw[i])}
    IN  /\ time_col \in DOMAIN raw
        /\ Named # {} => (time_col \in Named /\ \A i \in Named : time_col <= i)
        /\ (Named = {} /\ P # {}) => (time_col \in P /\ \A i \in P : time_col <= i)
        /\ (Named = {} /\ P = {}) => time_col = 1
        /\ pc = "loaded" => (Len(df) = NumRows(raw) /\ IsSorted(df))

\* C8 as stated: the name test ignores case.
C8_TimeColumnAnyCase ==
    LoadEnded =>
        TimeColumnChosenBy({i \in DOMAIN raw :
            LET s == Lower(Chars(raw[i].name))
            IN  /\ Contains(s, <<"i", "n", "t", "e", "r", "v", "a", "l">>)
                /\ Contains(s, <<"s", "t", "a", "r", "t">>)
                /\ Contains(s, <<"l", "o", "c", "a", "l">>)})

\* C8 amended: the name test is case-sensitive: a field whose name contains
\* the lower-case substrings "interval", "start" and "local" is chosen (the
\* first such in column order); otherwise the first field all of whose values
\* pd.to_datetime converts; otherwise the first field.  Exactly one field is
\* chosen and a Dataset that is built is sorted non-decreasing by timestamp.
C8_TimeColumnCaseSensitive ==
    LoadEnded =>
        TimeColumnChosenBy({i \in DOMAIN raw :
            LET s == Chars(raw[i].name)
            IN  /\ Contains(s, <<"i", "n", "t", "e", "r", "v", "a", "l">>)
                /\ Contains(s, <<"s", "t", "a", "r", "t">>)
                /\ Contains(s, <<"l", "o", "c", "a", "l">>)})

\* a sheet whose third column is named interval_start_local, after a numeric
\* zone and a datetime column: the third is chosen and the rows are reordered
C8_Witness ==
    /\ pc = "loaded"
    /\ Len(raw) = 3
    /\ raw[1].kind = "number"
    /\ raw[2].kind = "datetime"
    /\ raw[3].name = "interval_start_local"
    /\ time_col = 3
    /\ df[1].timestamp = 1380
    /\ df[2].timestamp = 1445

=============================================================================
